---------------------------- MODULE Spec2Model ----------------------------
(***************************************************************************)
(* A model of the chat-completion proxy handlers of this repository:       *)
(*   src/api/v1/chat/completions.js            (variant "completions")     *)
(*   src/unnamed/part_000, lines 1-238         (variant "optimized")       *)
(*   src/unnamed/part_000, lines 240-447       (variant "fixed")           *)
(* Text is a sequence of one-character strings, so that includes(), the    *)
(* regular expression, split(), trim() and slice() are computed character  *)
(* by character as JavaScript computes them.  JavaScript values are tagged *)
(* records, so that truthiness (the || and ! of the source) is computed.   *)
(***************************************************************************)
EXTENDS Integers, Sequences, FiniteSets, TLC

VARIABLES
    variant,      \* which handler file serves the route
    NIM_API_KEY,  \* process.env.NIM_API_KEY is set (TRUE) or not (FALSE)
    pc,           \* where the handler stands: idle, fetching, reading_text, reading_json, done
    req,          \* the inbound request
    nimRequest,   \* the body passed to fetch(), NoRequest before
    fetchCalls,   \* number of fetch() calls issued
    timeoutId,    \* the setTimeout timer: unarmed, pending, fired, cleared
    aborted,      \* controller.signal.aborted
    now,          \* Date.now(), in milliseconds
    startTime,    \* the handler's startTime
    response,     \* status of the upstream response whose body is being read, 0 before
    data,         \* the parsed body of the upstream response, NoData before
    fieldsRead,   \* the fields of choices[0] the extraction has read
    sent          \* the responses written to res, in order

vars == <<variant, NIM_API_KEY, pc, req, nimRequest, fetchCalls, timeoutId,
          aborted, now, startTime, response, data, fieldsRead, sent>>

-----------------------------------------------------------------------------
(* String literals of the source, as character sequences. *)
k_gpt35 == <<"g", "p", "t", "-", "3", ".", "5", "-", "t", "u", "r", "b", "o">>
k_gpt4 == <<"g", "p", "t", "-", "4">>
k_gpt4turbo == <<"g", "p", "t", "-", "4", "-", "t", "u", "r", "b", "o">>
k_gpt4o == <<"g", "p", "t", "-", "4", "o">>
k_opus == <<"c", "l", "a", "u", "d", "e", "-", "3", "-", "o", "p", "u", "s">>
k_sonnet == <<"c", "l", "a", "u", "d", "e", "-", "3", "-", "s", "o", "n", "n", "e", "t">>
k_gemini == <<"g", "e", "m", "i", "n", "i", "-", "p", "r", "o">>
k_constructor == <<"c", "o", "n", "s", "t", "r", "u", "c", "t", "o", "r">>
k_toString == <<"t", "o", "S", "t", "r", "i", "n", "g">>
k_unknown == <<"m", "y", "-", "m", "o", "d", "e", "l">>
m_llama == <<"m", "e", "t", "a", "/", "l", "l", "a", "m", "a", "-", "3", ".", "1", "-", "8", "b", "-", "i", "n", "s", "t", "r", "u", "c", "t">>
m_glm == <<"z", "-", "a", "i", "/", "g", "l", "m", "4", ".", "7">>
m_deepseek31 == <<"d", "e", "e", "p", "s", "e", "e", "k", "-", "a", "i", "/", "d", "e", "e", "p", "s", "e", "e", "k", "-", "v", "3", ".", "1">>
m_deepseek32 == <<"d", "e", "e", "p", "s", "e", "e", "k", "-", "a", "i", "/", "d", "e", "e", "p", "s", "e", "e", "k", "-", "v", "3", ".", "2">>
m_nemotron == <<"n", "v", "i", "d", "i", "a", "/", "l", "l", "a", "m", "a", "-", "3", ".", "1", "-", "n", "e", "m", "o", "t", "r", "o", "n", "-", "u", "l", "t", "r", "a", "-", "2", "5", "3", "b", "-", "v", "1">>
m_oss120 == <<"o", "p", "e", "n", "a", "i", "/", "g", "p", "t", "-", "o", "s", "s", "-", "1", "2", "0", "b">>
m_oss20 == <<"o", "p", "e", "n", "a", "i", "/", "g", "p", "t", "-", "o", "s", "s", "-", "2", "0", "b">>
m_qwen == <<"q", "w", "e", "n", "/", "q", "w", "e", "n", "3", "-", "n", "e", "x", "t", "-", "8", "0", "b", "-", "a", "3", "b", "-", "t", "h", "i", "n", "k", "i", "n", "g">>
s_zai == <<"z", "-", "a", "i">>
s_deepseek == <<"d", "e", "e", "p", "s", "e", "e", "k">>
l_FinalAnswer == <<"F", "i", "n", "a", "l", " ", "A", "n", "s", "w", "e", "r">>
l_Answer == <<"A", "n", "s", "w", "e", "r">>
l_Result == <<"R", "e", "s", "u", "l", "t">>
l_Output == <<"O", "u", "t", "p", "u", "t">>
s_stop == <<"s", "t", "o", "p">>

-----------------------------------------------------------------------------
(* JavaScript values. *)
Undefined == [t |-> "undefined"]
Null == [t |-> "null"]
Str(s) == [t |-> "string", v |-> s]
Num(n) == [t |-> "number", v |-> n]
Arr(a) == [t |-> "array", v |-> a]
Obj == [t |-> "object"]
Fn == [t |-> "function"]

\* ToBoolean: what `!x`, `x || y` and `if (x)` test.
Truthy(x) ==
    CASE x.t = "undefined" -> FALSE
      [] x.t = "null" -> FALSE
      [] x.t = "string" -> Len(x.v) > 0
      [] x.t = "number" -> x.v # 0
      [] OTHER -> TRUE

\* x || y
Or(x, y) == IF Truthy(x) THEN x ELSE y

\* Array.isArray(x)
IsArray(x) == x.t = "array"

Min(a, b) == IF a <= b THEN a ELSE b
Max(a, b) == IF a >= b THEN a ELSE b

-----------------------------------------------------------------------------
(* String.prototype and RegExp operations used by the handlers. *)

\* s.includes(sub)
Includes(s, sub) ==
    \E i \in 1..(Len(s) - Len(sub) + 1) : SubSeq(s, i, i + Len(sub) - 1) = sub

\* a variant of the slice below that keeps the first k elements
SliceFirst(a, k) == SubSeq(a, 1, Min(Len(a), k))

\* Array.prototype.slice(-k), k > 0: from max(length - k, 0) to the end
SliceLast(a, k) == SubSeq(a, Max(Len(a) - k, 0) + 1, Len(a))

\* the characters \s matches and trim() strips
IsSpace(c) == c \in {" ", "\n", "\t", "\r"}

RECURSIVE TrimStart(_)
TrimStart(s) ==
    IF s = <<>> THEN <<>>
    ELSE IF IsSpace(Head(s)) THEN TrimStart(Tail(s)) ELSE s

RECURSIVE TrimEnd(_)
TrimEnd(s) ==
    IF s = <<>> THEN <<>>
    ELSE IF IsSpace(s[Len(s)]) THEN TrimEnd(SubSeq(s, 1, Len(s) - 1)) ELSE s

\* s.trim()
Trim(s) == TrimEnd(TrimStart(s))

\* s.split('\n'): the pieces between line feeds; always at least one piece
RECURSIVE SplitLines(_)
SplitLines(s) ==
    IF \A i \in 1..Len(s) : s[i] # "\n" THEN <<s>>
    ELSE LET i == CHOOSE j \in 1..Len(s) :
                      s[j] = "\n" /\ \A k \in 1..(j - 1) : s[k] # "\n"
         IN  <<SubSeq(s, 1, i - 1)>> \o SplitLines(SubSeq(s, i + 1, Len(s)))

\* lines.filter(line => line.trim()): an empty string is falsy
RECURSIVE FilterNonBlank(_)
FilterNonBlank(ls) ==
    IF ls = <<>> THEN <<>>
    ELSE IF Len(Trim(Head(ls))) > 0
         THEN <<Head(ls)>> \o FilterNonBlank(Tail(ls))
         ELSE FilterNonBlank(Tail(ls))

\* lines.join('\n')
RECURSIVE JoinLines(_)
JoinLines(ls) ==
    IF ls = <<>> THEN <<>>
    ELSE IF Len(ls) = 1 THEN ls[1]
    ELSE ls[1] \o <<"\n">> \o JoinLines(Tail(ls))

UpperChars == <<"A", "B", "C", "D", "E", "F", "G", "H", "I", "J", "K", "L", "M",
                "N", "O", "P", "Q", "R", "S", "T", "U", "V", "W", "X", "Y", "Z">>
LowerChars == <<"a", "b", "c", "d", "e", "f", "g", "h", "i", "j", "k", "l", "m",
                "n", "o", "p", "q", "r", "s", "t", "u", "v", "w", "x", "y", "z">>

\* case folding of the regular expression's i flag
LowerOf ==
    [c \in {UpperChars[i] : i \in 1..Len(UpperChars)} |->
        LowerChars[CHOOSE i \in 1..Len(UpperChars) : UpperChars[i] = c]]

Lower(c) == IF c \in DOMAIN LowerOf THEN LowerOf[c] ELSE c

\* the alternation (?:Final Answer|Answer|Result|Output), in its order
Labels == <<l_FinalAnswer, l_Answer, l_Result, l_Output>>

\* label l, in any case, stands at position i of s and ':' follows it
LabelAt(s, i, l) ==
    /\ i + Len(l) <= Len(s)
    /\ s[i + Len(l)] = ":"
    /\ \A k \in 1..Len(l) : Lower(s[i + k - 1]) = Lower(l[k])

\* The pattern (?:Final Answer|Answer|Result|Output):\s*(.+) with flags i and s
\* matches at position i of s: a label, then ':', then at least one more
\* character (with the s flag '.' matches every character, line feeds too).
MatchesAt(s, i) ==
    \E n \in 1..Len(Labels) : LabelAt(s, i, Labels[n]) /\ i + Len(Labels[n]) < Len(s)

\* Capture group 1 of the match at i: \s* is greedy, and gives one character
\* back when it has eaten the whole rest, because .+ needs one.
Group1At(s, i) ==
    LET n == CHOOSE m \in 1..Len(Labels) :
                 /\ LabelAt(s, i, Labels[m])
                 /\ \A p \in 1..(m - 1) : ~LabelAt(s, i, Labels[p])
        rest == SubSeq(s, i + Len(Labels[n]) + 1, Len(s))
        body == TrimStart(rest)
    IN  IF body = <<>> THEN <<rest[Len(rest)]>> ELSE body

\* the leftmost position from i on where the pattern matches, 0 when none
RECURSIVE FirstMatch(_, _)
FirstMatch(s, i) ==
    IF i > Len(s) THEN 0
    ELSE IF MatchesAt(s, i) THEN i
    ELSE FirstMatch(s, i + 1)

NoMatch == [matched |-> FALSE]

\* reasoning.match(/(?:Final Answer|Answer|Result|Output):\s*(.+)/is):
\* the leftmost match, or null
RegexMatch(s) ==
    LET i == FirstMatch(s, 1)
    IN  IF i > 0 THEN [matched |-> TRUE, group1 |-> Group1At(s, i)] ELSE NoMatch

-----------------------------------------------------------------------------
(* The handler files and their tuning. *)
Variants == {"completions", "optimized", "fixed"}

\* MODEL_MAPPING's own properties, as <<key, value>> pairs
MODEL_MAPPING(v) ==
    CASE v = "completions" ->
           { <<k_gpt35, m_llama>>, <<k_gpt4, m_glm>>, <<k_gpt4turbo, m_glm>>,
             <<k_gpt4o, m_deepseek31>>, <<k_opus, m_deepseek31>>,
             <<k_sonnet, m_glm>>, <<k_gemini, m_llama>> }
      [] v = "fixed" ->
           { <<k_gpt35, m_llama>>, <<k_gpt4, m_glm>>, <<k_gpt4turbo, m_glm>>,
             <<k_gpt4o, m_deepseek32>>, <<k_opus, m_deepseek31>>,
             <<k_sonnet, m_glm>>, <<k_gemini, m_llama>> }
      [] v = "optimized" ->
           { <<k_gpt35, m_nemotron>>, <<k_gpt4, m_deepseek32>>, <<k_gpt4turbo, m_glm>>,
             <<k_gpt4o, m_deepseek31>>, <<k_opus, m_oss120>>,
             <<k_sonnet, m_oss20>>, <<k_gemini, m_qwen>> }
      [] v = "chat" ->
           { <<k_gpt35, m_nemotron>>, <<k_gpt4, m_deepseek32>>, <<k_gpt4turbo, m_glm>>,
             <<k_gpt4o, m_deepseek31>>, <<k_opus, m_oss120>>,
             <<k_sonnet, m_oss20>>, <<k_gemini, m_qwen>> }

MappingKeys(v) == { p[1] : p \in MODEL_MAPPING(v) }

\* Properties every object literal inherits from Object.prototype (the two the
\* requests of this model name; valueOf, hasOwnProperty, ... behave alike).
ObjectPrototypeKeys == {k_constructor, k_toString}

\* MODEL_MAPPING[key]: an own property, else an inherited one, else undefined
PropertyLookup(v, key) ==
    IF key \in MappingKeys(v)
    THEN Str((CHOOSE p \in MODEL_MAPPING(v) : p[1] = key)[2])
    ELSE IF key \in ObjectPrototypeKeys THEN Fn
    ELSE Undefined

\* model || 'gpt-4o'
DefaultRequestModel(v) == IF v = "optimized" THEN k_gpt35 ELSE k_gpt4o
requestModel(v, model) == Or(model, Str(DefaultRequestModel(v)))

\* MODEL_MAPPING[requestModel] || 'deepseek-ai/deepseek-v3.1'
DefaultNimModel(v) == IF v = "optimized" THEN m_llama ELSE m_deepseek31
nimModel(v, model) ==
    Or(PropertyLookup(v, requestModel(v, model).v), Str(DefaultNimModel(v)))

\* a variant of the check below that forgets Array.isArray
InvalidMessagesFalsyOnly(messages) == ~Truthy(messages)

\* !messages || !Array.isArray(messages)
InvalidMessages(messages) == ~Truthy(messages) \/ ~IsArray(messages)

\* messages.slice is a function only when messages is an array or a string
SliceThrows(messages) == messages.t \notin {"array", "string"}

\* nimModel.includes is a function only when nimModel is a string
IncludesThrows(nm) == nm.t # "string"

\* nimModel.includes('z-ai') || nimModel.includes('deepseek')
IsSlowTier(nm) == Includes(nm.v, s_zai) \/ Includes(nm.v, s_deepseek)

SlowWindowCompletions == 4
SlowWindowOptimized == 6
FastWindow == 10
SlowCeilingCompletions == 1024
SlowCeilingOptimized == 800
FastCeiling == 2048
SlowDefaultTokens == 512
FastDefaultTokens == 1024
TIMEOUT_MS == 180000
TIMEOUT_MS_Optimized == 50000

Window(v, nm) ==
    IF IsSlowTier(nm)
    THEN (IF v = "optimized" THEN SlowWindowOptimized ELSE SlowWindowCompletions)
    ELSE FastWindow

Ceiling(v, nm) ==
    IF IsSlowTier(nm)
    THEN (IF v = "optimized" THEN SlowCeilingOptimized ELSE SlowCeilingCompletions)
    ELSE FastCeiling

DefaultTokens(nm) == IF IsSlowTier(nm) THEN SlowDefaultTokens ELSE FastDefaultTokens

Timeout(v) == IF v = "optimized" THEN TIMEOUT_MS_Optimized ELSE TIMEOUT_MS

\* messages.slice(-4) / messages.slice(-10)
limitedMessages(v, messages, nm) == SliceLast(messages, Window(v, nm))

\* a variant of the clamp below that takes the larger of the two
optimizedMaxTokensMax(v, max_tokens, nm) ==
    Max(Or(max_tokens, Num(DefaultTokens(nm))).v, Ceiling(v, nm))

\* Math.min(max_tokens || 512, 1024) / Math.min(max_tokens || 1024, 2048)
optimizedMaxTokens(v, max_tokens, nm) ==
    Min(Or(max_tokens, Num(DefaultTokens(nm))).v, Ceiling(v, nm))

\* temperature !== undefined ? temperature : 0.7   (numbers in tenths)
DefaultTemperature == Num(7)
Temperature(temperature) ==
    IF temperature # Undefined THEN temperature ELSE DefaultTemperature

NoRequest == [t |-> "undefined"]

\* the nimRequest object literal
BuildNimRequest(v, r) ==
    LET nm == nimModel(v, r.model)
    IN  [t |-> "object",
         model |-> nm.v,
         messages |-> limitedMessages(v, r.messages.v, nm),
         temperature |-> Temperature(r.temperature),
         max_tokens |-> optimizedMaxTokens(v, r.max_tokens, nm),
         stream |-> FALSE]

-----------------------------------------------------------------------------
(* Content extraction from choices[0]. *)

\* choice.message?.f
MessageField(choice, f) ==
    IF choice.message.t = "object" THEN choice.message[f] ELSE Undefined

\* choice.delta?.content
DeltaContent(choice) ==
    IF choice.delta.t = "object" THEN choice.delta.content ELSE Undefined

\* a variant of the recovery below that does not trim the labelled answer
FromReasoningUntrimmed(reasoning) ==
    LET finalAnswerMatch == RegexMatch(reasoning)
        lines == FilterNonBlank(SplitLines(reasoning))
    IN  IF finalAnswerMatch.matched THEN finalAnswerMatch.group1
        ELSE IF Len(lines) > 0 THEN Trim(JoinLines(SliceLast(lines, 3)))
        ELSE reasoning

\* a variant of the recovery below that keeps the last two lines
FromReasoningLastTwo(reasoning) ==
    LET finalAnswerMatch == RegexMatch(reasoning)
        lines == FilterNonBlank(SplitLines(reasoning))
    IN  IF finalAnswerMatch.matched THEN Trim(finalAnswerMatch.group1)
        ELSE IF Len(lines) > 0 THEN Trim(JoinLines(SliceLast(lines, 2)))
        ELSE reasoning

\* completions.js: the answer recovered from a reasoning trace
FromReasoning(reasoning) ==
    LET finalAnswerMatch == RegexMatch(reasoning)
        lines == FilterNonBlank(SplitLines(reasoning))
    IN  IF finalAnswerMatch.matched THEN Trim(finalAnswerMatch.group1)
        ELSE IF Len(lines) > 0 THEN Trim(JoinLines(SliceLast(lines, 3)))
        ELSE reasoning

\* completions.js: message.content is taken when truthy, not null and not ''
HasContent(choice) ==
    LET c == MessageField(choice, "content")
    IN  Truthy(c) /\ c # Null /\ c # Str(<<>>)

\* a variant of the chain below that looks at the reasoning trace first
ExtractCompletionsReasoningFirst(choice) ==
    IF Truthy(MessageField(choice, "reasoning_content"))
    THEN Str(FromReasoning(MessageField(choice, "reasoning_content").v))
    ELSE IF HasContent(choice) THEN MessageField(choice, "content")
    ELSE IF Truthy(choice.text) THEN choice.text
    ELSE IF Truthy(MessageField(choice, "text")) THEN MessageField(choice, "text")
    ELSE Str(<<>>)

\* completions.js, the if / else-if chain that assigns content
ExtractCompletions(choice) ==
    IF HasContent(choice) THEN MessageField(choice, "content")
    ELSE IF Truthy(MessageField(choice, "reasoning_content"))
         THEN Str(FromReasoning(MessageField(choice, "reasoning_content").v))
    ELSE IF Truthy(choice.text) THEN choice.text
    ELSE IF Truthy(MessageField(choice, "text")) THEN MessageField(choice, "text")
    ELSE Str(<<>>)

\* part_000 "optimized": message.content, then text, then message.text
ExtractOptimized(choice) ==
    IF Truthy(MessageField(choice, "content")) THEN MessageField(choice, "content")
    ELSE IF Truthy(choice.text) THEN choice.text
    ELSE IF Truthy(MessageField(choice, "text")) THEN MessageField(choice, "text")
    ELSE Str(<<>>)

\* part_000 "fixed": the || chain over six fields
ExtractFixed(choice) ==
    Or(MessageField(choice, "content"),
    Or(MessageField(choice, "reasoning_content"),
    Or(choice.text,
    Or(MessageField(choice, "text"),
    Or(DeltaContent(choice),
    Or(choice.content, Str(<<>>)))))))

Extract(v, choice) ==
    CASE v = "completions" -> ExtractCompletions(choice)
      [] v = "optimized" -> ExtractOptimized(choice)
      [] v = "fixed" -> ExtractFixed(choice)

\* The fields of the choice the chain reads before it stops (|| and else-if
\* evaluate left to right and stop at the first truthy operand).
RECURSIVE ReadUntilTruthy(_, _)
ReadUntilTruthy(choice, fields) ==
    IF fields = <<>> THEN {}
    ELSE LET f == Head(fields)
             x == CASE f = "message.content" -> MessageField(choice, "content")
                    [] f = "message.reasoning_content" ->
                           MessageField(choice, "reasoning_content")
                    [] f = "text" -> choice.text
                    [] f = "message.text" -> MessageField(choice, "text")
                    [] f = "delta.content" -> DeltaContent(choice)
                    [] f = "content" -> choice.content
         IN  {f} \cup (IF Truthy(x) THEN {} ELSE ReadUntilTruthy(choice, Tail(fields)))

FieldOrder(v) ==
    CASE v = "completions" ->
           <<"message.content", "message.reasoning_content", "text", "message.text">>
      [] v = "optimized" -> <<"message.content", "text", "message.text">>
      [] v = "fixed" ->
           <<"message.content", "message.reasoning_content", "text", "message.text",
             "delta.content", "content">>

FieldsRead(v, choice) == ReadUntilTruthy(choice, FieldOrder(v))

-----------------------------------------------------------------------------
(* Texts the requests and the upstream bodies of this model carry. *)
t_A == <<"A">>
t_B == <<"B">>
t_42 == <<"4", "2">>
t_example5 == <<"T", "h", "i", "n", "k", "i", "n", "g", ".", ".", ".", "\n", "F", "i", "n", "a", "l", " ", "A", "n", "s", "w", "e", "r", ":", " ", "4", "2">>
t_example6 == <<"l", "i", "n", "e", "1", "\n", "l", "i", "n", "e", "2", "\n", "l", "i", "n", "e", "3", "\n", "l", "i", "n", "e", "4">>
t_last3 == <<"l", "i", "n", "e", "2", "\n", "l", "i", "n", "e", "3", "\n", "l", "i", "n", "e", "4">>
t_length == <<"l", "e", "n", "g", "t", "h">>
ln_a == <<"a">>
ln_b == <<" ", "b", " ">>
ln_answer42 == <<"A", "n", "s", "w", "e", "r", ":", " ", "4", "2">>
ln_finalanswer == <<"f", "i", "n", "a", "l", " ", "a", "n", "s", "w", "e", "r", ":">>
ln_result == <<"R", "e", "s", "u", "l", "t">>
t_spaces == <<" ", "\n", " ">>

-----------------------------------------------------------------------------
(* What is written to res. *)
Preflight == [status |-> 200, kind |-> "empty"]

ErrorEnvelope(type, message) ==
    [status |-> 200, kind |-> "error", type |-> type, message |-> message]

\* the timeout_error envelope; its message carries Math.floor(elapsed/1000)
\* ("completions", "fixed") or elapsed itself ("optimized")
TimeoutEnvelope(v, elapsed) ==
    [status |-> 200, kind |-> "error", type |-> "timeout_error",
     message |-> "Timeout after",
     elapsed |-> IF v = "optimized" THEN elapsed ELSE elapsed \div 1000]

\* the api_error envelope of a non-2xx upstream status, with errorText.substring(0, 200)
ApiErrorEnvelope(v, status, errorText) ==
    [status |-> 200, kind |-> "error", type |-> "api_error",
     message |-> "NVIDIA API error", upstream |-> status,
     details |-> SubSeq(errorText, 1, Min(Len(errorText), IF v = "optimized" THEN 100 ELSE 200))]

NoChoicesMessage(v) ==
    IF v = "optimized" THEN "Invalid response from NVIDIA" ELSE "Invalid response - no choices"

EmptyEnvelope(v) ==
    IF v = "optimized" THEN ErrorEnvelope("api_error", "Empty response from model")
    ELSE ErrorEnvelope("empty_response_error", "Empty response")

\* the chat.completion object
SuccessEnvelope(v, r, choice, content) ==
    [status |-> 200, kind |-> "success",
     model |-> requestModel(v, r.model).v,
     content |-> content,
     finish_reason |-> Or(choice.finish_reason, Str(s_stop)).v]

-----------------------------------------------------------------------------
(* Bounds of the model and the inputs drawn within them. *)
MaxMessages == 12
MaxTicks == 7
MaxLines == 4

TickMs == TIMEOUT_MS \div 6

\* a conversation of n messages; message i is the i-th oldest
Conversation(n) == [i \in 1..n |-> i]

Request(method, hasBody, model, messages, temperature, max_tokens) ==
    [method |-> method, hasBody |-> hasBody, model |-> model, messages |-> messages,
     temperature |-> temperature, max_tokens |-> max_tokens]

\* values of `messages` that are missing or not an array
BadMessages == {Undefined, Null, Str(<<>>), Str(t_A), Num(0), Num(1), Obj}

ModelInputs ==
    {Undefined, Null, Str(<<>>), Str(k_unknown), Str(k_constructor), Str(k_toString)}
        \cup { Str(k) : k \in MappingKeys("completions") }

TokenInputs ==
    {Undefined, Null} \cup { Num(n) : n \in
        {-5, 0, 1, 5000} \cup UNION { {c - 1, c, c + 1} :
            c \in {SlowDefaultTokens, SlowCeilingOptimized, SlowCeilingCompletions, FastCeiling} } }

\* the requests of the lifecycle specification
Requests ==
    { Request("OPTIONS", FALSE, Undefined, Undefined, Undefined, Undefined),
      Request("GET", FALSE, Undefined, Undefined, Undefined, Undefined),
      Request("POST", FALSE, Undefined, Undefined, Undefined, Undefined) }
    \cup { Request("POST", TRUE, Undefined, m, Undefined, Undefined) : m \in BadMessages }
    \cup { Request("POST", TRUE, m, Arr(Conversation(n)), Undefined, Num(100)) :
             m \in {Undefined, Str(k_gpt35), Str(k_constructor)}, n \in {0, 2} }

\* the requests of the shaping specification
ShapeRequests ==
    { Request("POST", TRUE, Undefined, m, Undefined, Undefined) : m \in BadMessages }
    \cup { Request("POST", TRUE, m, Arr(Conversation(n)), Undefined, Num(100)) :
             m \in ModelInputs, n \in 0..MaxMessages }
    \cup { Request("POST", TRUE, m, Arr(Conversation(n)), t, k) :
             m \in {Undefined, Str(k_gpt35), Str(k_gpt4)}, n \in {1, MaxMessages},
             t \in {Undefined, Num(0)}, k \in TokenInputs }

\* upstream objects
Message(content, reasoning_content, text) ==
    [t |-> "object", content |-> content, reasoning_content |-> reasoning_content,
     text |-> text]

Delta(content) == [t |-> "object", content |-> content]

Choice(message, text, delta, content, finish_reason) ==
    [t |-> "object", message |-> message, text |-> text, delta |-> delta,
     content |-> content, finish_reason |-> finish_reason]

Data(choices, usage) == [t |-> "object", choices |-> choices, usage |-> usage]


\* the lines a reasoning trace is made of; the empty line included
LineSet == {<<>>, ln_a, ln_b, ln_answer42, ln_finalanswer, ln_result}

\* reasoning traces: up to MaxLines lines joined by line feeds, and the two
\* traces of the specification's examples
Traces ==
    { JoinLines(ls) : ls \in UNION { [1..n -> LineSet] : n \in 1..MaxLines } }
        \cup {t_example5, t_example6}

\* a response whose choices[0] carries the six candidate fields
Fields(c, r, mt, x, d, cc) ==
    Data(Arr(<<Choice(Message(c, r, mt), x, Delta(d), cc, Undefined)>>), Undefined)

FieldValues == {Undefined, Null, Str(<<>>)}

\* values of data.choices without a usable first element
NoChoices == {Undefined, Null, Arr(<<>>), Arr(<<Null>>)}

\* the bodies of the lifecycle specification
Bodies ==
    { Data(c, Undefined) : c \in NoChoices }
    \cup { Fields(Str(t_A), Str(t_B), Undefined, Undefined, Undefined, Undefined),
           Fields(Null, Str(t_example5), Undefined, Undefined, Undefined, Undefined),
           Fields(Null, Null, Undefined, Str(t_B), Undefined, Undefined),
           Fields(Null, Null, Str(t_B), Undefined, Undefined, Undefined),
           Fields(Null, Null, Undefined, Undefined, Str(t_B), Undefined),
           Fields(Null, Null, Undefined, Undefined, Undefined, Str(t_B)),
           Fields(Null, Str(<<>>), Null, Str(<<>>), Null, Undefined),
           Data(Arr(<<Choice(Undefined, Str(t_A), Undefined, Undefined, Str(t_length))>>), Obj) }

\* the bodies of the extraction specification
ExtractBodies ==
    { Fields(c, Str(r), Undefined, x, Undefined, Undefined) :
          c \in {Null, Str(t_A)}, r \in Traces, x \in {Undefined} }
    \cup { Fields(c, r, mt, x, d, cc) :
          c \in FieldValues \cup {Str(t_A)},
          r \in FieldValues \cup {Str(t_B), Str(t_spaces), Str(ln_finalanswer)},
          mt \in {Undefined, Str(t_42)}, x \in {Null, Str(ln_a)},
          d \in {Undefined, Str(ln_b)}, cc \in {Undefined, Str(ln_result)} }
    \cup { Data(c, Undefined) : c \in NoChoices }
    \cup { Data(Arr(<<Choice(Undefined, x, Undefined, cc, Undefined)>>), Undefined) :
          x \in {Undefined, Str(t_A)}, cc \in {Undefined, Str(t_B)} }

-----------------------------------------------------------------------------
(* The state before a request arrives. *)
NoData == [t |-> "undefined"]

NoReq == Request("NONE", FALSE, Undefined, Undefined, Undefined, Undefined)

Init ==
    /\ variant \in Variants
    /\ NIM_API_KEY \in BOOLEAN
    /\ pc = "idle"
    /\ req = NoReq
    /\ nimRequest = NoRequest
    /\ fetchCalls = 0
    /\ timeoutId = "unarmed"
    /\ aborted = FALSE
    /\ now = 0
    /\ startTime = 0
    /\ response = 0
    /\ data = NoData
    /\ fieldsRead = {}
    /\ sent = <<>>

\* res.status(200).json(body) followed by return
Respond(body) ==
    /\ sent' = Append(sent, body)
    /\ pc' = "done"

\* The handler from its entry to its first await: CORS preflight, method and
\* credential checks, validation of messages, model resolution, shaping, the
\* timer and the fetch() call.  An exception thrown inside the try block is
\* answered by the catch block at the end of the handler.
handler(r) ==
    /\ pc = "idle"
    /\ req' = r
    /\ startTime' = now
    /\ UNCHANGED <<variant, NIM_API_KEY, aborted, now, response, data, fieldsRead>>
    /\ IF r.method = "OPTIONS"
       THEN Respond(Preflight) /\ UNCHANGED <<nimRequest, fetchCalls, timeoutId>>
       ELSE IF r.method # "POST"
       THEN /\ Respond(ErrorEnvelope("invalid_request_error", "Method not allowed"))
            /\ UNCHANGED <<nimRequest, fetchCalls, timeoutId>>
       ELSE IF ~NIM_API_KEY
       THEN /\ Respond(ErrorEnvelope("server_error", "API key not configured"))
            /\ UNCHANGED <<nimRequest, fetchCalls, timeoutId>>
       ELSE IF ~r.hasBody
       THEN \* destructuring undefined throws a TypeError
            /\ Respond(ErrorEnvelope("server_error", "Cannot destructure req.body"))
            /\ UNCHANGED <<nimRequest, fetchCalls, timeoutId>>
       ELSE IF InvalidMessages(r.messages)
       THEN /\ Respond(ErrorEnvelope("invalid_request_error", "Invalid messages"))
            /\ UNCHANGED <<nimRequest, fetchCalls, timeoutId>>
       ELSE IF IncludesThrows(nimModel(variant, r.model)) \/ SliceThrows(r.messages)
       THEN \* a TypeError: nimModel.includes (messages.slice) is not a function
            /\ Respond(ErrorEnvelope("server_error", "is not a function"))
            /\ UNCHANGED <<nimRequest, fetchCalls, timeoutId>>
       ELSE /\ nimRequest' = BuildNimRequest(variant, r)
            /\ timeoutId' = "pending"
            /\ fetchCalls' = fetchCalls + 1
            /\ pc' = "fetching"
            /\ UNCHANGED sent

\* clearTimeout(timeoutId): cancels a pending timer, and nothing else
clearTimeout(id) == IF id = "pending" THEN "cleared" ELSE id

\* Date.now() advances while the handler is suspended or no request has come
Tick ==
    /\ pc # "done"
    /\ now < MaxTicks * TickMs
    /\ now' = now + TickMs
    /\ UNCHANGED <<variant, NIM_API_KEY, pc, req, nimRequest, fetchCalls, timeoutId,
                   aborted, startTime, response, data, fieldsRead, sent>>

\* The setTimeout callback: it runs no earlier than TIMEOUT_MS after the timer
\* was set and only while the timer has not been cleared; it aborts the fetch.
TimerFire ==
    /\ timeoutId = "pending"
    /\ now - startTime >= Timeout(variant)
    /\ timeoutId' = "fired"
    /\ aborted' = TRUE
    /\ UNCHANGED <<variant, NIM_API_KEY, pc, req, nimRequest, fetchCalls, now,
                   startTime, response, data, fieldsRead, sent>>

\* The catch block around fetch() on an AbortError: the aborted fetch rejects,
\* the handler answers timeout_error and returns.
AbortCatch ==
    /\ pc = "fetching"
    /\ aborted
    /\ timeoutId' = clearTimeout(timeoutId)
    /\ Respond(TimeoutEnvelope(variant, now - startTime))
    /\ UNCHANGED <<variant, NIM_API_KEY, req, nimRequest, fetchCalls,
                   aborted, now, startTime, response, data, fieldsRead>>

\* a variant of the action below in which an aborted fetch still delivers
FetchResolveLate(status) ==
    /\ pc = "fetching"
    /\ timeoutId' = clearTimeout(timeoutId)
    /\ response' = status
    /\ pc' = IF status \in 200..299 THEN "reading_json" ELSE "reading_text"
    /\ UNCHANGED <<variant, NIM_API_KEY, req, nimRequest, fetchCalls, aborted, now,
                   startTime, data, fieldsRead, sent>>

\* fetch() resolves with the response headers: clearTimeout, then the await of
\* response.text() (status not ok) or response.json().  A fetch whose signal
\* is aborted does not resolve.
FetchResolve(status) ==
    /\ pc = "fetching"
    /\ ~aborted
    /\ timeoutId' = clearTimeout(timeoutId)
    /\ response' = status
    /\ pc' = IF status \in 200..299 THEN "reading_json" ELSE "reading_text"
    /\ UNCHANGED <<variant, NIM_API_KEY, req, nimRequest, fetchCalls, aborted, now,
                   startTime, data, fieldsRead, sent>>

\* fetch() rejects for another reason than the abort: clearTimeout, rethrow,
\* and the handler's catch block answers server_error
FetchReject ==
    /\ pc = "fetching"
    /\ ~aborted
    /\ timeoutId' = clearTimeout(timeoutId)
    /\ Respond(ErrorEnvelope("server_error", "fetch failed"))
    /\ UNCHANGED <<variant, NIM_API_KEY, req, nimRequest, fetchCalls, aborted, now,
                   startTime, response, data, fieldsRead>>

\* response.text() resolves: the answer to a non-2xx upstream status
TextArrives(errorText) ==
    /\ pc = "reading_text"
    /\ Respond(CASE response = 429 ->
                      ErrorEnvelope("rate_limit_error", "Rate limit exceeded")
                 [] response = 401 ->
                      ErrorEnvelope("authentication_error", "Invalid API key")
                 [] OTHER -> ApiErrorEnvelope(variant, response, errorText))
    /\ UNCHANGED <<variant, NIM_API_KEY, req, nimRequest, fetchCalls, timeoutId,
                   aborted, now, startTime, response, data, fieldsRead>>

\* response.text() or response.json() rejects (the body breaks off, or is not
\* JSON): the handler's catch block answers server_error
BodyFails ==
    /\ pc \in {"reading_text", "reading_json"}
    /\ Respond(ErrorEnvelope("server_error", "body could not be read"))
    /\ UNCHANGED <<variant, NIM_API_KEY, req, nimRequest, fetchCalls, timeoutId,
                   aborted, now, startTime, response, data, fieldsRead>>

\* data.choices[0]
FirstChoice(body) ==
    IF body.choices.t = "array" /\ Len(body.choices.v) > 0
    THEN body.choices.v[1] ELSE Undefined

\* a variant of the check below that forgets data.choices[0]
NoFirstChoiceMissingOnly(body) == ~Truthy(body.choices)

\* !data.choices || !data.choices[0]
NoFirstChoice(body) == ~Truthy(body.choices) \/ ~Truthy(FirstChoice(body))

\* property access on undefined or null throws a TypeError
ReadThrows(x) == x.t \in {"undefined", "null"}

ZeroUsage == [t |-> "object", prompt_tokens |-> 0, completion_tokens |-> 0, total_tokens |-> 0]

\* a variant of the answer below without the check for empty content
ReplyNoEmptyCheck(v, r, body) ==
    IF NoFirstChoice(body)
    THEN ErrorEnvelope("api_error", NoChoicesMessage(v))
    ELSE IF ReadThrows(FirstChoice(body))
    THEN ErrorEnvelope("server_error", "Cannot read properties of undefined")
    ELSE LET choice == FirstChoice(body)
             content == Extract(v, choice)
         IN  SuccessEnvelope(v, r, choice, content.v)
                 @@ [usage |-> Or(body.usage, ZeroUsage)]

\* What the handler answers to the parsed body: the validation of choices,
\* the extraction, the empty check and the chat.completion object.
Reply(v, r, body) ==
    IF NoFirstChoice(body)
    THEN ErrorEnvelope("api_error", NoChoicesMessage(v))
    ELSE IF ReadThrows(FirstChoice(body))
    THEN ErrorEnvelope("server_error", "Cannot read properties of undefined")
    ELSE LET choice == FirstChoice(body)
             content == Extract(v, choice)
         IN  IF ~Truthy(content)
             THEN EmptyEnvelope(v)
             ELSE SuccessEnvelope(v, r, choice, content.v)
                      @@ [usage |-> Or(body.usage, ZeroUsage)]

\* response.json() resolves; the rest of the handler runs without an await
JsonArrives(body) ==
    /\ pc = "reading_json"
    /\ data' = body
    /\ fieldsRead' = IF NoFirstChoice(body) \/ ReadThrows(FirstChoice(body))
                     THEN {} ELSE FieldsRead(variant, FirstChoice(body))
    /\ Respond(Reply(variant, req, body))
    /\ UNCHANGED <<variant, NIM_API_KEY, req, nimRequest, fetchCalls, timeoutId,
                   aborted, now, startTime, response>>

Statuses == {200, 401, 429, 500}

Next ==
    \/ \E r \in Requests : handler(r)
    \/ Tick
    \/ TimerFire
    \/ AbortCatch
    \/ \E status \in Statuses : FetchResolve(status)
    \/ FetchReject
    \/ \E errorText \in {<<>>, t_A} : TextArrives(errorText)
    \/ BodyFails
    \/ \E body \in Bodies : JsonArrives(body)

Spec == Init /\ [][Next]_vars

-----------------------------------------------------------------------------
(* Shaping over many requests: every model name, every conversation length   *)
(* up to MaxMessages, every token limit around the ceilings.                 *)
NextShape == pc = "idle" /\ \E r \in ShapeRequests : handler(r)

SpecShape == Init /\ [][NextShape]_vars

(* Extraction over many upstream bodies.  The initial states are those the   *)
(* handler is in while it awaits response.json() of a 2xx response.          *)
FirstRequest == Request("POST", TRUE, Str(k_gpt4), Arr(Conversation(2)), Undefined, Undefined)

InitExtract ==
    /\ variant \in Variants
    /\ NIM_API_KEY = TRUE
    /\ pc = "reading_json"
    /\ req = FirstRequest
    /\ nimRequest = BuildNimRequest(variant, FirstRequest)
    /\ fetchCalls = 1
    /\ timeoutId = "cleared"
    /\ aborted = FALSE
    /\ now = 0
    /\ startTime = 0
    /\ response = 200
    /\ data = NoData
    /\ fieldsRead = {}
    /\ sent = <<>>

NextExtract == pc = "reading_json" /\ \E body \in ExtractBodies : JsonArrives(body)

SpecExtract == InitExtract /\ [][NextExtract]_vars

-----------------------------------------------------------------------------
(* src/api/chat.js: the axios-based handler.  It checks neither the         *)
(* credential nor messages, arms no timer, and answers a failure with the   *)
(* upstream's status or 500.                                                *)
ChatDefaultMaxTokens == 13000

\* MODEL_MAPPING[model] || 'meta/llama-3.1-8b-instruct'
ChatNimModel(model) ==
    IF model.t = "string" THEN Or(PropertyLookup("chat", model.v), Str(m_llama))
    ELSE Str(m_llama)

\* the nimRequest object literal of chat.js; temperature in tenths
ChatNimRequest(r) ==
    [t |-> "object",
     model |-> ChatNimModel(r.model),
     messages |-> r.messages,
     temperature |-> Or(r.temperature, Num(8)),
     max_tokens |-> Or(r.max_tokens, Num(ChatDefaultMaxTokens)),
     stream |-> FALSE]

\* res.status(405).json({ error: 'Method not allowed' }): error is a string
MethodNotAllowed == [status |-> 405, kind |-> "error_string", error |-> "Method not allowed"]

\* the catch block: error.response?.status || 500 with the fixed type
ChatErrorEnvelope(status, message) ==
    [status |-> Or(status, Num(500)).v, kind |-> "error",
     type |-> "invalid_request_error", message |-> message,
     code |-> Or(status, Num(500)).v]

\* the callback of response.data.choices.map throws a TypeError on a choice
\* that is null or undefined (choice.message) or has no message (.role)
ChatChoiceThrows(choice) ==
    ReadThrows(choice) \/ ReadThrows(choice.message)

\* choice.message?.content || ''
ChatContent(choice) == Or(MessageField(choice, "content"), Str(<<>>))

\* What chat.js answers to the body of a 2xx response.
ChatReply(r, body) ==
    IF body.choices.t # "array"
    THEN ChatErrorEnvelope(Undefined, "Cannot read properties of undefined")
    ELSE IF \E i \in 1..Len(body.choices.v) : ChatChoiceThrows(body.choices.v[i])
    THEN ChatErrorEnvelope(Undefined, "Cannot read properties of undefined")
    ELSE [status |-> 200, kind |-> "success", model |-> r.model,
          choices |-> [i \in 1..Len(body.choices.v) |-> ChatContent(body.choices.v[i])],
          usage |-> Or(body.usage, ZeroUsage)]

\* The handler of chat.js from its entry to await axios.post(...).
chat(r) ==
    /\ variant = "chat"
    /\ pc = "idle"
    /\ req' = r
    /\ startTime' = now
    /\ UNCHANGED <<variant, NIM_API_KEY, timeoutId, aborted, now, response, data, fieldsRead>>
    /\ IF r.method = "OPTIONS"
       THEN Respond(Preflight) /\ UNCHANGED <<nimRequest, fetchCalls>>
       ELSE IF r.method # "POST"
       THEN Respond(MethodNotAllowed) /\ UNCHANGED <<nimRequest, fetchCalls>>
       ELSE IF ~r.hasBody
       THEN \* destructuring undefined throws a TypeError inside the try block
            /\ Respond(ChatErrorEnvelope(Undefined, "Cannot destructure req.body"))
            /\ UNCHANGED <<nimRequest, fetchCalls>>
       ELSE /\ nimRequest' = ChatNimRequest(r)
            /\ fetchCalls' = fetchCalls + 1
            /\ pc' = "posting"
            /\ UNCHANGED sent

\* axios.post resolves (a 2xx status, the body parsed); the rest of the
\* handler runs without an await
AxiosResolve(body) ==
    /\ variant = "chat"
    /\ pc = "posting"
    /\ response' = 200
    /\ data' = body
    /\ Respond(ChatReply(req, body))
    /\ UNCHANGED <<variant, NIM_API_KEY, req, nimRequest, fetchCalls, timeoutId,
                   aborted, now, startTime, fieldsRead>>

\* axios.post rejects: with error.response on a non-2xx status, without it
\* when no response came (status 0 here)
AxiosReject(status) ==
    /\ variant = "chat"
    /\ pc = "posting"
    /\ response' = status
    /\ Respond(ChatErrorEnvelope(IF status = 0 THEN Undefined ELSE Num(status),
                                 "Request failed"))
    /\ UNCHANGED <<variant, NIM_API_KEY, req, nimRequest, fetchCalls, timeoutId,
                   aborted, now, startTime, data, fieldsRead>>

\* the statuses axios rejects with; 0 stands for a request without response
RejectStatuses == {0, 401, 429, 500}

NextChat ==
    \/ \E r \in Requests : chat(r)
    \/ \E body \in Bodies : AxiosResolve(body)
    \/ \E status \in RejectStatuses : AxiosReject(status)

(* All four handlers of the repository. *)
Handlers == Variants \cup {"chat"}

InitAll ==
    /\ variant \in Handlers
    /\ NIM_API_KEY \in BOOLEAN
    /\ pc = "idle"
    /\ req = NoReq
    /\ nimRequest = NoRequest
    /\ fetchCalls = 0
    /\ timeoutId = "unarmed"
    /\ aborted = FALSE
    /\ now = 0
    /\ startTime = 0
    /\ response = 0
    /\ data = NoData
    /\ fieldsRead = {}
    /\ sent = <<>>

NextV1 == variant \in Variants /\ Next

NextAll == NextV1 \/ NextChat

SpecAll == InitAll /\ [][NextAll]_vars

-----------------------------------------------------------------------------
(* What the properties below read off a state. *)

\* the request went through the method, credential and body checks
PostWithBody == pc # "idle" /\ req.method = "POST" /\ req.hasBody

\* exactly one response was written, and it is an error envelope of this type
AnsweredError(type) ==
    /\ pc = "done" /\ Len(sent) = 1
    /\ sent[1].kind = "error" /\ sent[1].status = 200 /\ sent[1].type = type

\* exactly one response was written, and it is a chat.completion object
AnsweredSuccess == pc = "done" /\ Len(sent) = 1 /\ sent[1].kind = "success"

\* the upstream body was parsed and its choices[0] is an object
HasChoice ==
    /\ data.t = "object" /\ data.choices.t = "array"
    /\ Len(data.choices.v) > 0 /\ data.choices.v[1].t = "object"

TheChoice == data.choices.v[1]

\* the six candidate fields of choices[0], undefined where the parent is absent
Candidate(f) ==
    CASE f = "message.content" ->
           IF TheChoice.message.t = "object" THEN TheChoice.message.content ELSE Undefined
      [] f = "message.reasoning_content" ->
           IF TheChoice.message.t = "object" THEN TheChoice.message.reasoning_content
           ELSE Undefined
      [] f = "message.text" ->
           IF TheChoice.message.t = "object" THEN TheChoice.message.text ELSE Undefined
      [] f = "text" -> TheChoice.text
      [] f = "delta.content" ->
           IF TheChoice.delta.t = "object" THEN TheChoice.delta.content ELSE Undefined
      [] f = "content" -> TheChoice.content

CandidateFields ==
    {"message.content", "message.reasoning_content", "text", "message.text",
     "delta.content", "content"}

\* a field that is present, non-null and non-empty
NonEmptyText(x) == x.t = "string" /\ x.v # <<>>

SetMin(S) == CHOOSE x \in S : \A y \in S : x <= y
SetMax(S) == CHOOSE x \in S : \A y \in S : x >= y

\* s without its leading and trailing white space, by positions
Trimmed(s) ==
    LET ink == { i \in 1..Len(s) : s[i] \notin {" ", "\n", "\t", "\r"} }
    IN  IF ink = {} THEN <<>> ELSE SubSeq(s, SetMin(ink), SetMax(ink))

\* the positions of the ':' of s that one of the four labels, in any case,
\* stands right in front of
LabelColons(s) ==
    { c \in 1..Len(s) :
        /\ s[c] = ":"
        /\ \E l \in {l_FinalAnswer, l_Answer, l_Result, l_Output} :
              /\ c - Len(l) >= 1
              /\ [k \in 1..Len(l) |-> Lower(s[c - Len(l) + k - 1])]
                     = [k \in 1..Len(l) |-> Lower(l[k])] }

\* the text after the first labelled ':' of s, to the end of s
AfterFirstLabel(s) == SubSeq(s, SetMin(LabelColons(s)) + 1, Len(s))

\* the lines of s by position: a line starts at 1 and after every line feed
LineStarts(s) == { i \in 1..(Len(s) + 1) : i = 1 \/ s[i - 1] = "\n" }
LineStop(s, i) == SetMin({ j \in i..(Len(s) + 1) : j = Len(s) + 1 \/ s[j] = "\n" })
LineAt(s, i) == SubSeq(s, i, LineStop(s, i) - 1)
NonBlankStarts(s) ==
    { i \in LineStarts(s) : \E k \in i..(LineStop(s, i) - 1) : s[k] \notin {" ", "\n", "\t", "\r"} }
LastThree(S) == { i \in S : Cardinality({ j \in S : j > i }) < 3 }

RECURSIVE JoinAt(_, _)
JoinAt(s, S) ==
    IF S = {} THEN <<>>
    ELSE LET i == SetMin(S)
         IN  LineAt(s, i) \o (IF S = {i} THEN <<>> ELSE <<"\n">> \o JoinAt(s, S \ {i}))

\* the last three non-blank lines of s, in order, joined by line feeds, trimmed
LastThreeLines(s) == Trimmed(JoinAt(s, LastThree(NonBlankStarts(s))))

\* the extracted reply is x: a success envelope carrying x, or, x being empty,
\* the empty-response envelope
Replied(x) ==
    IF x = <<>> THEN pc = "done" /\ sent = <<EmptyEnvelope(variant)>>
    ELSE AnsweredSuccess /\ sent[1].content = x

\* completions.js got a body whose message.content is unusable and whose
\* message.reasoning_content is a non-empty trace
ReasoningOnly ==
    /\ variant = "completions" /\ pc = "done" /\ HasChoice
    /\ ~NonEmptyText(Candidate("message.content"))
    /\ NonEmptyText(Candidate("message.reasoning_content"))

Trace == Candidate("message.reasoning_content").v

-----------------------------------------------------------------------------
(* C1, as stated: every POST request whose body has messages missing or not *)
(* an array is answered invalid_request_error, and no fetch is issued.      *)
C1_AsStated ==
    (PostWithBody /\ req.messages.t # "array")
        => AnsweredError("invalid_request_error") /\ fetchCalls = 0

(* C1, amended: with the credential configured such a request is answered   *)
(* invalid_request_error; without it the answer is server_error; in both    *)
(* cases no upstream request is built and no fetch is ever issued.          *)
C1_InvalidMessagesRejected ==
    (PostWithBody /\ req.messages.t # "array")
        => /\ AnsweredError(IF NIM_API_KEY THEN "invalid_request_error" ELSE "server_error")
           /\ fetchCalls = 0
           /\ nimRequest = NoRequest
           /\ timeoutId = "unarmed"

C1_Witness ==
    /\ PostWithBody /\ NIM_API_KEY /\ req.messages = Str(t_A)
    /\ AnsweredError("invalid_request_error")

(* C2: once the timer has fired the fetch is aborted, the request ends with *)
(* exactly one response, the timeout_error envelope reporting the elapsed   *)
(* time (at least the configured bound), and no upstream response is ever   *)
(* read or processed; a timeout_error is sent only after the timer fired.   *)
C2_TimeoutExclusive ==
    /\ Len(sent) <= 1
    /\ timeoutId = "fired" =>
          /\ aborted
          /\ pc \in {"fetching", "done"}
          /\ response = 0 /\ data = NoData /\ fieldsRead = {}
          /\ pc = "done" =>
                /\ AnsweredError("timeout_error")
                /\ sent[1].elapsed =
                      IF variant = "optimized" THEN now - startTime
                      ELSE (now - startTime) \div 1000
                /\ now - startTime >= IF variant = "optimized" THEN 50000 ELSE 180000
    /\ (Len(sent) = 1 /\ sent[1].kind = "error" /\ sent[1].type = "timeout_error")
          => timeoutId = "fired"

C2_Witness ==
    /\ variant = "completions" /\ timeoutId = "fired"
    /\ AnsweredError("timeout_error") /\ sent[1].elapsed >= 180

(* C3: a success envelope always carries a non-empty string as content, and *)
(* a body none of whose six candidate fields holds non-empty text is        *)
(* answered with the empty_response_error envelope (completions.js and the  *)
(* "fixed" handler; the "optimized" handler answers api_error there).       *)
C3_SuccessNonEmpty ==
    /\ (Len(sent) >= 1 /\ sent[1].kind = "success")
          => Len(sent) = 1 /\ sent[1].status = 200 /\ Len(sent[1].content) > 0
    /\ (pc = "done" /\ HasChoice /\ variant # "optimized"
          /\ \A f \in CandidateFields : ~NonEmptyText(Candidate(f)))
          => AnsweredError("empty_response_error")

C3_Witness ==
    /\ variant = "completions" /\ pc = "done" /\ HasChoice
    /\ \A f \in CandidateFields : ~NonEmptyText(Candidate(f))
    /\ Candidate("message.content") = Null
    /\ AnsweredError("empty_response_error")

(* C4: whenever message.content is present, non-null and non-empty, the     *)
(* reply is a success envelope carrying exactly that content, whatever the  *)
(* other five fields hold.                                                  *)
C4_ContentPreferred ==
    (pc = "done" /\ HasChoice /\ NonEmptyText(Candidate("message.content")))
        => AnsweredSuccess /\ sent[1].content = Candidate("message.content").v

C4_Witness ==
    /\ variant = "completions" /\ pc = "done" /\ HasChoice
    /\ Candidate("message.content") = Str(t_A)
    /\ Candidate("message.reasoning_content") = Str(t_B)
    /\ AnsweredSuccess /\ sent[1].content = t_A

(* C5, as stated: with message.content unusable and a reasoning trace that  *)
(* contains a label followed by ':', the reply is the trimmed text after    *)
(* that label (the first one) to the end of the trace.                      *)
C5_AsStated ==
    (ReasoningOnly /\ LabelColons(Trace) # {})
        => Replied(Trimmed(AfterFirstLabel(Trace)))

(* C5, amended: ... a label followed by ':' and by at least one more        *)
(* character: the reply is the trimmed text after the first such label to   *)
(* the end of the trace (EmptyResponse when that text is all white space).  *)
C5_LabelledAnswer ==
    (ReasoningOnly /\ LabelColons(Trace) # {} /\ AfterFirstLabel(Trace) # <<>>)
        => Replied(Trimmed(AfterFirstLabel(Trace)))

C5_Witness ==
    /\ ReasoningOnly /\ Trace = t_example5
    /\ AnsweredSuccess /\ sent[1].content = t_42

(* C6, as stated: with message.content unusable and a reasoning trace       *)
(* without a labelled ':', the reply is the last three non-blank lines of   *)
(* the trace (all of them when fewer), in order, joined by line feeds and   *)
(* trimmed.                                                                 *)
C6_AsStated ==
    (ReasoningOnly /\ LabelColons(Trace) = {})
        => Replied(LastThreeLines(Trace))

(* C6, amended: ... and with at least one non-blank line: the reply is the  *)
(* last three non-blank lines, in order, joined by line feeds and trimmed.  *)
C6_LastThreeLines ==
    (ReasoningOnly /\ LabelColons(Trace) = {} /\ NonBlankStarts(Trace) # {})
        => Replied(LastThreeLines(Trace))

C6_Witness ==
    /\ ReasoningOnly /\ Trace = t_example6
    /\ AnsweredSuccess /\ sent[1].content = t_last3

(* C7: a 2xx response whose choices is absent or an empty sequence is       *)
(* answered with the api_error envelope "no choices", never a success, and  *)
(* no field of a choice has been read.                                      *)
C7_NoChoicesMalformed ==
    (pc = "done" /\ data.t = "object"
       /\ (data.choices.t = "undefined" \/ data.choices = Arr(<<>>)))
        => /\ AnsweredError("api_error")
           /\ sent[1].message = NoChoicesMessage(variant)
           /\ response \in 200..299
           /\ fieldsRead = {}

C7_Witness ==
    /\ variant = "completions" /\ data.t = "object" /\ data.choices = Arr(<<>>)
    /\ AnsweredError("api_error")

(* C8, as stated: a requested model name that is no key of MODEL_MAPPING    *)
(* is served by the default upstream model and does not fail the request;   *)
(* an absent model is resolved as the default caller-facing name.           *)
ValidPost ==
    /\ PostWithBody /\ NIM_API_KEY /\ req.messages.t = "array"

C8_UnknownModelDefaults ==
    /\ (ValidPost /\ req.model.t = "string" /\ req.model.v # <<>>
          /\ req.model.v \notin { p[1] : p \in MODEL_MAPPING(variant) })
          => /\ pc = "fetching" /\ sent = <<>>
             /\ nimRequest.model = DefaultNimModel(variant)
    /\ (ValidPost /\ req.model.t \in {"undefined", "null"})
          => /\ pc = "fetching"
             /\ \E p \in MODEL_MAPPING(variant) :
                   p[1] = DefaultRequestModel(variant) /\ nimRequest.model = p[2]

(* C9: the upstream messages are the last K messages of the request in      *)
(* their order (K = 4, or 6 in the "optimized" handler, for an upstream     *)
(* model whose id contains 'z-ai' or 'deepseek', else K = 10), the request's*)
(* messages unchanged when there are at most K, and truncating the result   *)
(* again leaves it unchanged.                                               *)
WindowOfClaim ==
    IF \E i \in 1..Len(nimRequest.model) :
          \/ (i + 3 <= Len(nimRequest.model) /\ SubSeq(nimRequest.model, i, i + 3) = s_zai)
          \/ (i + 7 <= Len(nimRequest.model)
                /\ SubSeq(nimRequest.model, i, i + 7) = s_deepseek)
    THEN (IF variant = "optimized" THEN 6 ELSE 4)
    ELSE 10

C9_SuffixPreserving ==
    pc = "fetching" =>
        LET in == req.messages.v
            out == nimRequest.messages
            K == WindowOfClaim
        IN  /\ Len(out) = IF Len(in) > K THEN K ELSE Len(in)
            /\ \A i \in 1..Len(out) : out[i] = in[Len(in) - Len(out) + i]
            /\ Len(in) <= K => out = in
            /\ limitedMessages(variant, out, Str(nimRequest.model)) = out

C9_Witness ==
    /\ pc = "fetching" /\ variant = "completions"
    /\ Len(req.messages.v) = 12 /\ nimRequest.messages = <<9, 10, 11, 12>>

(* C10, as stated: for every supplied integer max_tokens the upstream value *)
(* is at most the tier ceiling, equals the supplied value when that is at   *)
(* most the ceiling, and is monotonic in the supplied value; an absent      *)
(* max_tokens gives the tier default.                                       *)
CeilingOfClaim ==
    IF WindowOfClaim = 10 THEN 2048 ELSE IF variant = "optimized" THEN 800 ELSE 1024

DefaultOfClaim == IF WindowOfClaim = 10 THEN 1024 ELSE 512

SuppliedIntegers == { k.v : k \in { x \in TokenInputs : x.t = "number" } }

C10_AsStated ==
    pc = "fetching" =>
        LET in == req.max_tokens
            out == nimRequest.max_tokens
        IN  /\ in.t = "number" =>
                 /\ out <= CeilingOfClaim
                 /\ in.v <= CeilingOfClaim => out = in.v
                 /\ \A b \in SuppliedIntegers :
                       b <= in.v =>
                          optimizedMaxTokens(variant, Num(b), Str(nimRequest.model)) <= out
            /\ in.t \in {"undefined", "null"} => out = DefaultOfClaim

(* C10, amended: the same for every supplied integer other than 0; a        *)
(* max_tokens of 0 is treated as absent and gives the tier default.         *)
C10_ClampNonZero ==
    pc = "fetching" =>
        LET in == req.max_tokens
            out == nimRequest.max_tokens
        IN  /\ (in.t = "number" /\ in.v # 0) =>
                 /\ out <= CeilingOfClaim
                 /\ in.v <= CeilingOfClaim => out = in.v
                 /\ \A b \in SuppliedIntegers \ {0} :
                       b <= in.v =>
                          optimizedMaxTokens(variant, Num(b), Str(nimRequest.model)) <= out
            /\ (in.t \in {"undefined", "null"} \/ in = Num(0)) => out = DefaultOfClaim

C10_Witness ==
    /\ pc = "fetching" /\ variant = "completions"
    /\ req.max_tokens = Num(1025) /\ nimRequest.max_tokens = 1024


(* C11, as stated: every failure any of the chat handlers answers (each     *)
(* response that is neither the chat.completion object nor the preflight    *)
(* reply) has HTTP status 200 and an error object whose type is one of the  *)
(* seven envelope types; a handler that has finished has written exactly    *)
(* one response.                                                            *)
EnvelopeTypes ==
    {"invalid_request_error", "server_error", "timeout_error", "rate_limit_error",
     "authentication_error", "api_error", "empty_response_error"}

C11_FailuresAnswered200 ==
    /\ pc = "done" => Len(sent) = 1
    /\ \A i \in 1..Len(sent) :
          sent[i].kind \notin {"success", "empty"}
              => /\ sent[i].status = 200
                 /\ sent[i].kind = "error"
                 /\ sent[i].type \in EnvelopeTypes

(* C12, as stated: a POST request whose messages is an empty array is       *)
(* answered invalid_request_error and no fetch is issued for it.            *)
C12_EmptyMessagesRejected ==
    (ValidPost /\ req.messages = Arr(<<>>))
        => AnsweredError("invalid_request_error") /\ fetchCalls = 0

(* C13, as stated: whenever the handler is suspended on the upstream, for   *)
(* the response headers or for the response body, the timeout timer is      *)
(* pending (or has fired and the abort is on its way to the handler).       *)
Waiting == pc \in {"fetching", "reading_text", "reading_json"}

C13_SuspensionsTimed ==
    Waiting => timeoutId = "pending" \/ (timeoutId = "fired" /\ aborted)

(* C14, as stated: when message.content and message.reasoning_content are   *)
(* both absent or empty, the reply is the first non-empty field among       *)
(* text, message.text, delta.content and content, in that order, and the    *)
(* empty-response envelope is sent only when all four are empty.            *)
FallbackOrder == <<"text", "message.text", "delta.content", "content">>

FirstNonEmpty ==
    LET S == { i \in 1..Len(FallbackOrder) : NonEmptyText(Candidate(FallbackOrder[i])) }
    IN  IF S = {} THEN <<>> ELSE Candidate(FallbackOrder[SetMin(S)]).v

C14_FallbackChain ==
    (/\ variant \in {"completions", "fixed"} /\ pc = "done" /\ HasChoice
     /\ ~NonEmptyText(Candidate("message.content"))
     /\ ~NonEmptyText(Candidate("message.reasoning_content")))
        => Replied(FirstNonEmpty)

=============================================================================
